---- MODULE Spec2Model ----
(***************************************************************************)
(* Model of src/server.js: an express server that relays e-mail through    *)
(* nodemailer behind a one-at-a-time send gate (isSending) with a          *)
(* cooperative stop flag (stopRequested) and a counter (emailCount).       *)
(*                                                                         *)
(* Node runs the handlers on one thread: a handler runs without            *)
(* interruption from its entry to its first await, and from the return of  *)
(* an await to the next await or to its end.  Each such segment is one     *)
(* action.  The only awaits are transporter.verify() and                   *)
(* transporter.sendMail().                                                 *)
(***************************************************************************)
EXTENDS Naturals, FiniteSets

VARIABLES
    isSending,      \* server.js:12
    stopRequested,  \* server.js:13
    emailCount,     \* server.js:14
    inflight,       \* send handlers suspended in an await: [id, route, at, cancelled]
    arrived,        \* number of send requests received so far
    succeeded,      \* number of success responses sent so far (history)
    stopAccepted,   \* a POST /stop-sending has been accepted so far (history)
    last            \* the handler segment that ran last (history)

vars ==
    <<isSending, stopRequested, emailCount, inflight, arrived, succeeded,
      stopAccepted, last>>

\* Number of send requests a run receives.
MaxRequests == 3

(***************************************************************************)
(* Request bodies.  A field is absent, a string, or a number (a truthy     *)
(* value that is no string).                                               *)
(***************************************************************************)
Required == {"user", "password", "to", "subject", "text"}

FullBody ==
    [user |-> "str", password |-> "str", to |-> "str", subject |-> "str",
     text |-> "str", html |-> "absent"]

NoBody ==
    [user |-> "-", password |-> "-", to |-> "-", subject |-> "-",
     text |-> "-", html |-> "-"]

Bodies ==
    {FullBody}
    \cup {[FullBody EXCEPT ![f] = "absent"] : f \in Required}
    \cup {[FullBody EXCEPT !.text = "num"],
          [FullBody EXCEPT !.html = "str"],
          [FullBody EXCEPT !.text = "num", !.html = "str"]}

\* JavaScript truthiness of a field value.
Truthy(v) == v # "absent"

\* A validation that forgets to look at text.
MissingRequiredLax(body) ==
    \E f \in Required \ {"text"} : ~Truthy(body[f])

\* !user || !password || !to || !subject || !text
MissingRequired(body) ==
    \E f \in Required : ~Truthy(body[f])

\* html: html || text.replace(/\n/g, '<br>') throws a TypeError when html is
\* falsy and text has no replace method; html || text never throws.
PrepareThrows(route, body) ==
    /\ route = "send-gmail"
    /\ ~Truthy(body.html)
    /\ body.text # "str"

(***************************************************************************)
(* Errors.  An error is its code and the set of the substrings the catch   *)
(* blocks look for that its message contains.                              *)
(***************************************************************************)
QuotaMarkers == {"quota", "limit exceeded", "too many", "rate limit"}

BlockedMarkers == {"Message rejected", "suspicious activity"}

Codes == {"EAUTH", "EENVELOPE", "EMAXLIMIT", "ESOCKET"}

Messages ==
    {{}, {"Invalid login"}, {"self signed certificate"},
     {"quota"}, {"limit exceeded"}, {"too many"}, {"rate limit"},
     {"Message rejected"}, {"suspicious activity"},
     {"Invalid login", "quota"}, {"Message rejected", "rate limit"}}

\* What verify() and sendMail() may reject with: every message with a code the
\* catch blocks do not name, and every code with no marker and with a quota
\* marker in its message.
Errors ==
    [code : {"ESOCKET"}, message : Messages]
    \cup [code : Codes, message : {{}, {"quota"}}]

NoError == [code |-> "-", message |-> {}]

\* new Error('Envios interrompidos pelo usuário')
InterruptError == [code |-> "none", message |-> {"Envios interrompidos"}]

\* TypeError: text.replace is not a function
TypeError == [code |-> "none", message |-> {"is not a function"}]

MessageIds == {"abc123", "def456"}

(***************************************************************************)
(* The gate, as the record of the two flags.                               *)
(***************************************************************************)
Gate == [isSending |-> isSending, stopRequested |-> stopRequested]

\* A handler that does not look at the gate.
GateBusyNever(g) == FALSE

\* if (isSending) return res.status(429)...
GateBusy(g) == g.isSending

\* isSending = true; stopRequested = false;
Acquire(g) == [isSending |-> TRUE, stopRequested |-> FALSE]

\* isSending = false; in the validation branch
ValidationRelease(g) == [g EXCEPT !.isSending = FALSE]

\* A finally that forgets the stop flag.
FinallyKeepsStop(g) == [g EXCEPT !.isSending = FALSE]

\* A handler without its finally.
FinallyForgets(g) == g

\* finally { isSending = false; stopRequested = false; }
Finally(g) == [isSending |-> FALSE, stopRequested |-> FALSE]

\* A 429 return placed inside the try, so that the finally runs for it.
RejectedInsideTry(g) == Finally(g)

\* The 429 return is before the try: no finally runs for it.
Rejected(g) == g

\* A fault handler that forgets the stop flag.
FaultResetKeepsStop(g) == [g EXCEPT !.isSending = FALSE]

\* process.on('uncaughtException' | 'unhandledRejection'):
\* isSending = false; stopRequested = false;
FaultReset(g) == [isSending |-> FALSE, stopRequested |-> FALSE]

\* A stop handler that does not look at isSending.
RequestStopAlways(g) == [g EXCEPT !.stopRequested = TRUE]

\* POST /stop-sending: if (isSending) stopRequested = true;
RequestStop(g) ==
    IF g.isSending THEN [g EXCEPT !.stopRequested = TRUE] ELSE g

(***************************************************************************)
(* Responses.  A response is the HTTP status and the fields of its JSON    *)
(* body; the message is named by its kind.                                 *)
(***************************************************************************)
NoResponse == [status |-> 0]

BusyResponse ==
    [status |-> 429, success |-> FALSE, message |-> "AlreadyInProgress"]

InvalidResponse ==
    [status |-> 400, success |-> FALSE, message |-> "InvalidInput"]

SuccessResponse(messageId, count) ==
    [status |-> 200, success |-> TRUE, message |-> "Sent",
     messageId |-> messageId, emailCount |-> count]

\* The if/else chain of the catch block of /send-gmail.
ClassifyFull(error, stop) ==
    IF stop
    THEN [errorMessage |-> "Interrupted", shouldWait |-> FALSE]
    ELSE IF error.code = "EAUTH"
    THEN [errorMessage |-> "AuthenticationFailed", shouldWait |-> FALSE]
    ELSE IF error.code = "EENVELOPE"
    THEN [errorMessage |-> "EnvelopeRejected", shouldWait |-> FALSE]
    ELSE IF "Invalid login" \in error.message
    THEN [errorMessage |-> "InvalidLogin", shouldWait |-> FALSE]
    ELSE IF "self signed certificate" \in error.message
    THEN [errorMessage |-> "CertificateError", shouldWait |-> FALSE]
    ELSE IF \/ error.message \cap QuotaMarkers # {}
            \/ error.code = "EMAXLIMIT"
    THEN [errorMessage |-> "QuotaExceeded", shouldWait |-> TRUE]
    ELSE IF error.message \cap BlockedMarkers # {}
    THEN [errorMessage |-> "SuspiciousActivityBlocked", shouldWait |-> TRUE]
    ELSE [errorMessage |-> "TransportError", shouldWait |-> FALSE]

\* The if/else chain of the catch block of /send-gmail-simple.
ClassifySimple(error, stop) ==
    IF stop
    THEN [errorMessage |-> "Interrupted", shouldWait |-> FALSE]
    ELSE IF error.message \cap QuotaMarkers # {}
    THEN [errorMessage |-> "QuotaExceeded", shouldWait |-> TRUE]
    ELSE [errorMessage |-> "TransportError", shouldWait |-> FALSE]

\* A catch block that does not look at stopRequested for its message.
ClassifyIgnoresStop(route, error, stop) ==
    IF route = "send-gmail"
    THEN ClassifyFull(error, FALSE)
    ELSE ClassifySimple(error, FALSE)

Classify(route, error, stop) ==
    IF route = "send-gmail"
    THEN ClassifyFull(error, stop)
    ELSE ClassifySimple(error, stop)

\* interrupted: true only when the error is the checkpoint's own.
FailureResponseByError(route, error, g) ==
    LET c == Classify(route, error, g.stopRequested)
    IN  [status |-> 500, success |-> FALSE, message |-> c.errorMessage,
         shouldWait |-> c.shouldWait, interrupted |-> (error = InterruptError)]

\* res.status(500).json({success, message, shouldWait, interrupted})
FailureResponse(route, error, g) ==
    LET c == Classify(route, error, g.stopRequested)
    IN  [status |-> 500, success |-> FALSE, message |-> c.errorMessage,
         shouldWait |-> c.shouldWait, interrupted |-> g.stopRequested]

StopResponse(g) ==
    IF g.isSending
    THEN [status |-> 200, success |-> TRUE, message |-> "StopRequested"]
    ELSE [status |-> 200, success |-> FALSE, message |-> "NothingToStop"]

StatusResponse(g, count) ==
    [status |-> 200, isSending |-> g.isSending,
     stopRequested |-> g.stopRequested, emailCount |-> count]

(***************************************************************************)
(* Handler segments as functions of the gate they start from.  A segment   *)
(* yields the gate it leaves, where the handler is afterwards ("verify",   *)
(* "sendMail" or "done"), the response it sent, the error it caught, the   *)
(* transport calls it made and the statements it ran that write            *)
(* isSending = false.                                                      *)
(***************************************************************************)
Segment(g, at, response, error, calls, acquired) ==
    [gate |-> g, at |-> at, response |-> response, error |-> error,
     calls |-> calls, acquired |-> acquired, releases |-> {}]

\* The segment ran these release statements: "validation" is isSending = false
\* of the validation branch, "finally" is the finally block.
Releasing(sites, seg) == [seg EXCEPT !.releases = sites]

\* catch { ... res.status(500).json(...) } finally { ... }
CatchFinally(route, error, g, calls) ==
    Releasing({"finally"},
              Segment(Finally(g), "done", FailureResponse(route, error, g),
                      error, calls, TRUE))

\* if (!user || ...) { isSending = false; return res.status(400)... } finally
ValidationFailed(g, calls) ==
    Releasing({"validation", "finally"},
              Segment(Finally(ValidationRelease(g)), "done", InvalidResponse,
                      NoError, calls, TRUE))

\* A /send-gmail that creates its transport before it validates.
TryFullTransportFirst(body, g) ==
    IF MissingRequired(body)
    THEN ValidationFailed(g, {"createTransport"})
    ELSE IF PrepareThrows("send-gmail", body)
    THEN CatchFinally("send-gmail", TypeError, g, {"createTransport"})
    ELSE IF g.stopRequested
    THEN CatchFinally("send-gmail", InterruptError, g, {"createTransport"})
    ELSE Segment(g, "verify", NoResponse, NoError,
                 {"createTransport", "verify"}, TRUE)

\* /send-gmail from the try to await transporter.verify()
TryFull(body, g) ==
    IF MissingRequired(body)
    THEN ValidationFailed(g, {})
    ELSE IF PrepareThrows("send-gmail", body)
    THEN CatchFinally("send-gmail", TypeError, g, {"createTransport"})
    ELSE IF g.stopRequested
    THEN CatchFinally("send-gmail", InterruptError, g, {"createTransport"})
    ELSE Segment(g, "verify", NoResponse, NoError,
                 {"createTransport", "verify"}, TRUE)

\* A /send-gmail-simple that awaits verify() before its checkpoints.
TrySimpleVerifiesFirst(body, g) ==
    IF MissingRequired(body)
    THEN ValidationFailed(g, {})
    ELSE Segment(g, "verify", NoResponse, NoError,
                 {"createTransport", "verify"}, TRUE)

\* /send-gmail-simple from the try to await transporter.sendMail()
TrySimple(body, g) ==
    IF MissingRequired(body)
    THEN ValidationFailed(g, {})
    ELSE IF g.stopRequested
    THEN CatchFinally("send-gmail-simple", InterruptError, g, {})
    ELSE IF PrepareThrows("send-gmail-simple", body)
    THEN CatchFinally("send-gmail-simple", TypeError, g, {"createTransport"})
    ELSE IF g.stopRequested
    THEN CatchFinally("send-gmail-simple", InterruptError, g,
                      {"createTransport"})
    ELSE Segment(g, "sendMail", NoResponse, NoError,
                 {"createTransport", "sendMail"}, TRUE)

\* A send handler from its entry to its first await or to its end.
Start(route, body, g) ==
    IF GateBusy(g)
    THEN Segment(Rejected(g), "done", BusyResponse, NoError, {}, FALSE)
    ELSE IF route = "send-gmail"
    THEN TryFull(body, Acquire(g))
    ELSE TrySimple(body, Acquire(g))

\* A /send-gmail without its second checkpoint.
VerifyResolvedNoCheckpoint(g) ==
    Segment(g, "sendMail", NoResponse, NoError, {"sendMail"}, TRUE)

\* /send-gmail after verify() resolved: the second checkpoint, then sendMail.
VerifyResolved(g) ==
    IF g.stopRequested
    THEN CatchFinally("send-gmail", InterruptError, g, {})
    ELSE Segment(g, "sendMail", NoResponse, NoError, {"sendMail"}, TRUE)

\* A success path that forgets to count.
NoIncrement(count) == count

\* emailCount++
Increment(count) == count + 1

(***************************************************************************)
(* State machine                                                           *)
(***************************************************************************)
Event(kind, id, route, body, cancelled, seg) ==
    [kind |-> kind, id |-> id, route |-> route, body |-> body,
     cancelled |-> cancelled, at |-> seg.at, response |-> seg.response,
     error |-> seg.error, calls |-> seg.calls, acquired |-> seg.acquired,
     releases |-> seg.releases]

Init ==
    /\ isSending = FALSE
    /\ stopRequested = FALSE
    /\ emailCount = 0
    /\ inflight = {}
    /\ arrived = 0
    /\ succeeded = 0
    /\ stopAccepted = FALSE
    /\ last = [kind |-> "init", id |-> 0, route |-> "-", body |-> NoBody,
               cancelled |-> FALSE, at |-> "done", response |-> NoResponse,
               error |-> NoError, calls |-> {}, acquired |-> FALSE,
               releases |-> {}]

\* A send request arrives and its handler runs to its first await or its end.
Receive(route, body) ==
    /\ arrived' = arrived + 1
    /\ LET seg == Start(route, body, Gate)
           id == arrived + 1
       IN  /\ isSending' = seg.gate.isSending
           /\ stopRequested' = seg.gate.stopRequested
           /\ inflight' =
                 IF seg.at = "done"
                 THEN inflight
                 ELSE inflight \cup {[id |-> id, route |-> route,
                                      at |-> seg.at, cancelled |-> FALSE]}
           /\ last' = Event("request", id, route, body, FALSE, seg)
    /\ UNCHANGED <<emailCount, succeeded, stopAccepted>>

\* POST /send-gmail
SendGmail ==
    \E body \in Bodies :
        /\ arrived < MaxRequests
        /\ Receive("send-gmail", body)

\* POST /send-gmail-simple
SendGmailSimple ==
    \E body \in Bodies :
        /\ arrived < MaxRequests
        /\ Receive("send-gmail-simple", body)

\* await transporter.verify() returns normally.
VerifyResolves ==
    \E op \in inflight :
        /\ op.at = "verify"
        /\ LET seg == VerifyResolved(Gate)
           IN  /\ isSending' = seg.gate.isSending
               /\ stopRequested' = seg.gate.stopRequested
               /\ inflight' =
                     IF seg.at = "done"
                     THEN inflight \ {op}
                     ELSE (inflight \ {op}) \cup {[op EXCEPT !.at = seg.at]}
               /\ last' = Event("verifyResolved", op.id, op.route, NoBody,
                                op.cancelled, seg)
        /\ UNCHANGED <<emailCount, arrived, succeeded, stopAccepted>>

\* await transporter.verify() or transporter.sendMail() throws.
TransportRejects(kind, op, error) ==
    LET seg == CatchFinally(op.route, error, Gate, {})
    IN  /\ isSending' = seg.gate.isSending
        /\ stopRequested' = seg.gate.stopRequested
        /\ inflight' = inflight \ {op}
        /\ last' = Event(kind, op.id, op.route, NoBody,
                         op.cancelled, seg)
        /\ UNCHANGED <<emailCount, arrived, succeeded, stopAccepted>>

VerifyRejects ==
    \E op \in inflight, error \in Errors :
        /\ op.at = "verify"
        /\ TransportRejects("verifyRejected", op, error)

SendMailRejects ==
    \E op \in inflight, error \in Errors :
        /\ op.at = "sendMail"
        /\ TransportRejects("sendMailRejected", op, error)

\* await transporter.sendMail() returns: emailCount++, res.json, finally.
SendMailResolves ==
    \E op \in inflight, messageId \in MessageIds :
        /\ op.at = "sendMail"
        /\ emailCount' = Increment(emailCount)
        /\ succeeded' = succeeded + 1
        /\ LET seg == Releasing({"finally"},
                                Segment(Finally(Gate), "done",
                                        SuccessResponse(messageId, emailCount'),
                                        NoError, {}, TRUE))
           IN  /\ isSending' = seg.gate.isSending
               /\ stopRequested' = seg.gate.stopRequested
               /\ last' = Event("sendMailResolved", op.id, op.route, NoBody,
                                op.cancelled, seg)
        /\ inflight' = inflight \ {op}
        /\ UNCHANGED <<arrived, stopAccepted>>

\* POST /stop-sending
StopSending ==
    /\ isSending' = RequestStop(Gate).isSending
    /\ stopRequested' = RequestStop(Gate).stopRequested
    /\ inflight' =
          IF isSending
          THEN {[op EXCEPT !.cancelled = TRUE] : op \in inflight}
          ELSE inflight
    /\ last' = Event("stop", 0, "-", NoBody, FALSE,
                     Segment(RequestStop(Gate), "done", StopResponse(Gate),
                             NoError, {}, FALSE))
    /\ stopAccepted' = (stopAccepted \/ isSending)
    /\ UNCHANGED <<emailCount, arrived, succeeded>>

\* GET /sending-status
SendingStatus ==
    /\ last' = Event("status", 0, "-", NoBody, FALSE,
                     Segment(Gate, "done", StatusResponse(Gate, emailCount),
                             NoError, {}, FALSE))
    /\ UNCHANGED <<isSending, stopRequested, emailCount, inflight, arrived,
                   succeeded, stopAccepted>>

Next ==
    \/ SendGmail
    \/ SendGmailSimple
    \/ VerifyResolves
    \/ VerifyRejects
    \/ SendMailResolves
    \/ SendMailRejects
    \/ StopSending
    \/ SendingStatus

Spec == Init /\ [][Next]_vars

\* A process-level fault handler runs between two handler segments; the
\* suspended send handlers stay suspended.
ProcessFault(kind) ==
    /\ isSending' = FaultReset(Gate).isSending
    /\ stopRequested' = FaultReset(Gate).stopRequested
    /\ last' = Event(kind, 0, "-", NoBody, FALSE,
                     Segment(FaultReset(Gate), "done", NoResponse, NoError,
                             {}, FALSE))
    /\ UNCHANGED <<emailCount, inflight, arrived, succeeded, stopAccepted>>

\* process.on('uncaughtException', ...)
UncaughtException ==
    /\ TRUE
    /\ ProcessFault("uncaughtException")

\* process.on('unhandledRejection', ...)
UnhandledRejection ==
    /\ TRUE
    /\ ProcessFault("unhandledRejection")

FaultNext ==
    \/ Next
    \/ UncaughtException
    \/ UnhandledRejection

\* The server together with its process-level fault handlers.
FaultSpec == Init /\ [][FaultNext]_vars

\* Every verify() and every sendMail() that was called returns in the end,
\* normally or with an error.
FairSpec ==
    /\ Spec
    /\ WF_vars(VerifyResolves \/ VerifyRejects)
    /\ WF_vars(SendMailResolves \/ SendMailRejects)

(***************************************************************************)
(* Vocabulary of the properties                                            *)
(***************************************************************************)
SendKinds ==
    {"request", "verifyResolved", "verifyRejected", "sendMailResolved",
     "sendMailRejected"}

\* The segment that ran last ended a send handler.
SendEnded == last.kind \in SendKinds /\ last.at = "done"

\* A body that lacks one of the required fields.
Incomplete(body) == \E f \in Required : body[f] = "absent"

\* This step receives a send request.
Arrives == arrived' = arrived + 1

GateVars == <<isSending, stopRequested, emailCount>>

(***************************************************************************)
(* C1  Single-flight: at most one send handler, counted over both send     *)
(* routes, is between its acquisition of the gate and its release, and     *)
(* the handler in flight holds the gate.                                   *)
(***************************************************************************)
C1_SingleFlight ==
    /\ Cardinality(inflight) <= 1
    /\ inflight # {} => isSending

\* A send is in flight and a later request has found the gate held.
C1_Witness ==
    /\ inflight # {}
    /\ last.kind = "request"
    /\ last.response = BusyResponse
    /\ \E op \in inflight : op.id < last.id

(***************************************************************************)
(* C2  A send request that arrives while the gate is held is answered in   *)
(* its own step with HTTP 429, is not kept in flight, and leaves           *)
(* isSending, stopRequested, emailCount and the handler that holds the     *)
(* gate as they were.                                                      *)
(***************************************************************************)
C2_BusyRejected ==
    [][(Arrives /\ isSending) =>
          /\ last'.kind = "request"
          /\ last'.response = BusyResponse
          /\ last'.at = "done"
          /\ last'.calls = {}
          /\ UNCHANGED GateVars
          /\ inflight' = inflight]_vars

\* A send completed with success after a later request was turned away.
C2_Witness ==
    /\ last.kind = "sendMailResolved"
    /\ last.response.success
    /\ last.id < arrived

(***************************************************************************)
(* C3  Release on all paths: right after a send handler that acquired the  *)
(* gate ends (success, 400, interrupted, verify or submit failure, a       *)
(* TypeError thrown inside the try), isSending and stopRequested are       *)
(* false.                                                                  *)
(***************************************************************************)
C3_ReleaseOnAllPaths ==
    (SendEnded /\ last.acquired) => (~isSending /\ ~stopRequested)

\* A send during which a stop was accepted has ended.
C3_Witness ==
    /\ SendEnded
    /\ last.acquired
    /\ last.cancelled
    /\ last.response.status = 500

(***************************************************************************)
(* C4  emailCount never decreases; it grows by exactly 1 in the step that  *)
(* sends a success response and by 0 in every other step; it equals the    *)
(* number of success responses sent, which is the emailCount a success     *)
(* response carries and the emailCount GET /sending-status reports.        *)
(***************************************************************************)
C4_CounterMonotone ==
    /\ [](emailCount = succeeded)
    /\ []("emailCount" \in DOMAIN last.response
             => last.response.emailCount = succeeded)
    /\ [][/\ emailCount' >= emailCount
          /\ (last'.kind = "sendMailResolved") => (emailCount' = emailCount + 1)
          /\ (last'.kind # "sendMailResolved") => (emailCount' = emailCount)
         ]_vars

\* GET /sending-status reports a count of two after two successful sends.
C4_Witness ==
    /\ last.kind = "status"
    /\ last.response.emailCount = 2
    /\ succeeded = 2

(***************************************************************************)
(* C5  POST /stop-sending while isSending sets stopRequested and reports   *)
(* success, and changes nothing else; when stopRequested is already set    *)
(* it changes nothing at all; while isSending is false it reports failure  *)
(* and changes none of isSending, stopRequested, emailCount.               *)
(***************************************************************************)
C5_StopSemantics ==
    /\ [](/\ RequestStop(RequestStop(Gate)) = RequestStop(Gate)
          /\ StopResponse(RequestStop(Gate)) = StopResponse(Gate))
    /\ [][(last'.kind = "stop") =>
             /\ isSending' = isSending
             /\ emailCount' = emailCount
             /\ isSending =>
                   /\ stopRequested'
                   /\ last'.response.success
                   /\ stopRequested => UNCHANGED GateVars
             /\ ~isSending =>
                   /\ ~last'.response.success
                   /\ UNCHANGED GateVars
         ]_vars

\* A stop was accepted while a send is in flight.
C5_Witness ==
    /\ last.kind = "stop"
    /\ last.response.success
    /\ stopRequested
    /\ \E op \in inflight : op.cancelled

(***************************************************************************)
(* C6  Every failure response of a send handler (HTTP 400, 429, 500), on   *)
(* both send routes, carries a message, a shouldWait hint and an           *)
(* interrupted flag.                                                       *)
(***************************************************************************)
C6_FailureCarriesHints ==
    (SendEnded /\ ~last.response.success) =>
        {"message", "shouldWait", "interrupted"} \subseteq DOMAIN last.response

(***************************************************************************)
(* C7  Whenever verify or sendMail rejects with a message that contains a  *)
(* quota marker, the response has shouldWait true and is the quota         *)
(* message, on both routes, whatever the stop flag and the error code.     *)
(***************************************************************************)
C7_QuotaMeansWait ==
    (/\ last.kind \in {"verifyRejected", "sendMailRejected"}
     /\ last.error.message \cap QuotaMarkers # {}) =>
        /\ last.response.shouldWait
        /\ last.response.message = "QuotaExceeded"

(***************************************************************************)
(* C8  A 500 response of a send has interrupted true exactly when a stop   *)
(* request was accepted during that send; no other response of a send has  *)
(* interrupted true.                                                       *)
(***************************************************************************)
C8_InterruptedIffStopped ==
    SendEnded =>
        /\ last.response.status = 500
              => (last.response.interrupted <=> last.cancelled)
        /\ last.response.status # 500
              => "interrupted" \notin DOMAIN last.response

\* A stop was accepted while sendMail was in flight, and sendMail then failed.
C8_Witness ==
    /\ last.kind = "sendMailRejected"
    /\ last.cancelled
    /\ last.response.interrupted

(***************************************************************************)
(* C9  As claimed: a send request that lacks a required field is answered  *)
(* with HTTP 400 whatever the gate's state, the gate is never acquired     *)
(* for it, and the gate is free afterwards.                                *)
(***************************************************************************)
C9_InvalidNeverTouchesGate ==
    (last.kind = "request" /\ Incomplete(last.body)) =>
        /\ last.response = InvalidResponse
        /\ ~last.acquired
        /\ ~isSending

(***************************************************************************)
(* C9 as amended: a send request that lacks a required field never         *)
(* suspends.  If it arrives while the gate is free, the handler acquires   *)
(* the gate, answers HTTP 400 and releases the gate in the same step, so   *)
(* that isSending and stopRequested are false afterwards; if it arrives    *)
(* while the gate is held, it is answered HTTP 429 and the gate stays as   *)
(* it was.                                                                 *)
(***************************************************************************)
C9_InvalidAcquiresAndReleases ==
    [][(Arrives /\ Incomplete(last'.body)) =>
          /\ last'.at = "done"
          /\ inflight' = inflight
          /\ emailCount' = emailCount
          /\ ~isSending =>
                /\ last'.response = InvalidResponse
                /\ last'.acquired
                /\ ~isSending'
                /\ ~stopRequested'
          /\ isSending =>
                /\ last'.response = BusyResponse
                /\ ~last'.acquired
                /\ UNCHANGED GateVars]_vars

\* A request without its subject was answered 400, and the gate is free.
C9_Witness ==
    /\ last.kind = "request"
    /\ last.body.subject = "absent"
    /\ last.response = InvalidResponse
    /\ last.acquired
    /\ ~isSending

(***************************************************************************)
(* C10  A send request that lacks a required field never reaches the mail  *)
(* transport: its handler ends in the step that received it, without       *)
(* createTransport, verify or sendMail.                                    *)
(***************************************************************************)
C10_InvalidNeverReachesTransport ==
    (last.kind = "request" /\ Incomplete(last.body)) =>
        /\ last.calls = {}
        /\ last.at = "done"
        /\ \A op \in inflight : op.id # last.id

\* A request that lacks a field passed the gate and was stopped by validation.
C10_Witness ==
    /\ last.kind = "request"
    /\ Incomplete(last.body)
    /\ last.acquired
    /\ last.response.status = 400

(***************************************************************************)
(* C11  On /send-gmail, sendMail is called only by the segment that        *)
(* follows a successful verify.  When a stop was accepted while verify     *)
(* was in flight and verify then succeeds, the second checkpoint ends the  *)
(* send: sendMail is not called, emailCount is unchanged, the gate is      *)
(* released and the response is the 500 "interrupted" one.  Without a      *)
(* stop, the segment calls sendMail.                                       *)
(***************************************************************************)
C11_VerifyThenCheckpointThenSubmit ==
    /\ []((last.route = "send-gmail" /\ "sendMail" \in last.calls)
             => last.kind = "verifyResolved")
    /\ [][(last'.kind = "verifyResolved") =>
             IF last'.cancelled
             THEN /\ last'.at = "done"
                  /\ last'.calls = {}
                  /\ inflight' = {op \in inflight : op.id # last'.id}
                  /\ emailCount' = emailCount
                  /\ ~isSending'
                  /\ ~stopRequested'
                  /\ last'.response.status = 500
                  /\ last'.response.message = "Interrupted"
                  /\ last'.response.interrupted
             ELSE /\ last'.at = "sendMail"
                  /\ last'.calls = {"sendMail"}
         ]_vars

\* A stop arrived during verify, verify succeeded, and the send was ended.
C11_Witness ==
    /\ last.kind = "verifyResolved"
    /\ last.cancelled
    /\ last.at = "done"
    /\ last.response.message = "Interrupted"
    /\ ~isSending

(***************************************************************************)
(* C12  As claimed: a stop accepted while a transport call of a send is    *)
(* in flight is observed as soon as that call returns, whether it          *)
(* succeeded or failed: the send ends there with the interrupted           *)
(* response.                                                               *)
(***************************************************************************)
C12_StopObservedAtEveryReturn ==
    (/\ last.kind \in {"verifyResolved", "verifyRejected",
                       "sendMailResolved", "sendMailRejected"}
     /\ last.cancelled) =>
        /\ last.at = "done"
        /\ ~last.response.success
        /\ last.response.interrupted

(***************************************************************************)
(* C12 as amended: a stop accepted while a transport call is in flight is  *)
(* observed when verify returns (by the second checkpoint if it            *)
(* succeeded, by the catch if it failed) and when sendMail fails (by the   *)
(* catch); there is no checkpoint after a successful sendMail, whose send  *)
(* ends with the success response and a counted e-mail.                    *)
(***************************************************************************)
C12_StopObservedExceptAfterSubmit ==
    (/\ last.kind \in {"verifyResolved", "verifyRejected",
                       "sendMailResolved", "sendMailRejected"}
     /\ last.cancelled) =>
        /\ last.at = "done"
        /\ IF last.kind = "sendMailResolved"
           THEN /\ last.response.success
                /\ "interrupted" \notin DOMAIN last.response
                /\ last.response.emailCount = emailCount
           ELSE /\ last.response.status = 500
                /\ last.response.interrupted
                /\ last.response.message = "Interrupted"

\* A stop was accepted during sendMail, which then succeeded.
C12_Witness ==
    /\ last.kind = "sendMailResolved"
    /\ last.cancelled
    /\ last.response.success

(***************************************************************************)
(* C13  Progress, when every transport call returns: a send handler that   *)
(* is suspended in verify or sendMail reaches the step that sends its      *)
(* response (success or the 500 of the catch) and leaves the set of        *)
(* handlers in flight; a held gate is released in the end; and a request   *)
(* that does not suspend is answered in the step that received it.         *)
(***************************************************************************)
C13_Progress ==
    /\ \A id \in 1..MaxRequests :
          (\E op \in inflight : op.id = id)
             ~> (/\ SendEnded
                 /\ last.id = id
                 /\ last.response.status \in {200, 500}
                 /\ \A op \in inflight : op.id # id)
    /\ isSending ~> ~isSending
    /\ [][Arrives =>
             /\ last'.id = arrived'
             /\ (last'.at = "done") <=> (last'.response # NoResponse)
             /\ (last'.at # "done") <=> (\E op \in inflight' : op.id = arrived')
         ]_vars

\* The second send of a run was in flight and has been answered.
C13_Witness ==
    /\ SendEnded
    /\ last.id = 2
    /\ last.kind \in {"verifyRejected", "sendMailRejected", "sendMailResolved"}
    /\ ~isSending

(***************************************************************************)
(* C14  Between handler segments, with the process-level fault handlers    *)
(* included, stopRequested is true only while isSending is true; every     *)
(* step that takes isSending from true to false leaves stopRequested       *)
(* false; and every step in which a send handler acquires the gate and     *)
(* suspends leaves stopRequested false.                                    *)
(***************************************************************************)
C14_StopOnlyWhileSending ==
    /\ [](stopRequested => isSending)
    /\ [][(isSending /\ ~isSending') => ~stopRequested']_vars
    /\ [][(Arrives /\ last'.acquired) =>
             /\ ~stopRequested'
             /\ isSending' <=> (last'.at # "done")]_vars

\* A fault handler ran while a stopped send was suspended, and reset the gate.
C14_Witness ==
    /\ last.kind \in {"uncaughtException", "unhandledRejection"}
    /\ \E op \in inflight : op.cancelled
    /\ ~isSending
    /\ ~stopRequested

(***************************************************************************)
(* C15  Every send handler that acquired the gate runs exactly one         *)
(* statement that releases it (writes isSending = false) before it ends,   *)
(* on every exit path: never none and never more than one.                 *)
(***************************************************************************)
C15_ReleasedExactlyOnce ==
    (SendEnded /\ last.acquired) => Cardinality(last.releases) = 1

(***************************************************************************)
(* C16  With the process-level fault handlers included: at most one send   *)
(* handler is in flight; and when a send handler that was suspended ends,  *)
(* no other send handler is in flight whose gate its finally would         *)
(* release or whose stop request its finally would erase.                  *)
(***************************************************************************)
C16_SingleFlightUnderFaults ==
    /\ Cardinality(inflight) <= 1
    /\ (SendEnded /\ last.acquired /\ last.kind # "request") =>
          /\ inflight = {}
          /\ \A op \in inflight : isSending /\ (op.cancelled => stopRequested)

(***************************************************************************)
(* C17  A checkpoint that no await separates from the acquisition never    *)
(* finds stopRequested true: the segment that receives a request never     *)
(* ends with the checkpoint's error or an interrupted response.  On        *)
(* /send-gmail-simple a request with its required fields that acquires     *)
(* the gate always calls sendMail; a stop changes the outcome of a         *)
(* /send-gmail-simple send only when sendMail fails.                       *)
(***************************************************************************)
C17_NoStopBeforeFirstAwait ==
    /\ last.kind = "request" =>
          /\ last.error # InterruptError
          /\ last.response.status = 500 => ~last.response.interrupted
    /\ (/\ last.kind = "request"
        /\ last.route = "send-gmail-simple"
        /\ last.acquired
        /\ ~Incomplete(last.body)) =>
          /\ last.at = "sendMail"
          /\ "sendMail" \in last.calls
    /\ (last.route = "send-gmail-simple" /\ SendEnded /\ last.cancelled) =>
          /\ last.kind \in {"sendMailResolved", "sendMailRejected"}
          /\ last.response.success <=> (last.kind = "sendMailResolved")

\* A /send-gmail-simple send was stopped during sendMail, which succeeded.
C17_Witness ==
    /\ last.kind = "sendMailResolved"
    /\ last.route = "send-gmail-simple"
    /\ last.cancelled
    /\ last.response.success
    /\ last.response.emailCount = emailCount

(***************************************************************************)
(* C18  A stop request is scoped to the send in flight when it was         *)
(* accepted: stopRequested is true only while a send that was stopped is   *)
(* in flight; a send during which no stop was accepted never ends with     *)
(* the interrupted message or flag, whatever was stopped before it; a      *)
(* send that acquires the gate starts with stopRequested false; and a      *)
(* stop request while no send is in flight changes nothing.                *)
(***************************************************************************)
C18_StopScopedToItsSend ==
    /\ [](stopRequested => \E op \in inflight : op.cancelled)
    /\ []((SendEnded /\ ~last.cancelled) =>
             /\ last.response.message # "Interrupted"
             /\ last.response.status = 500 => ~last.response.interrupted)
    /\ [][(Arrives /\ last'.acquired) =>
             /\ ~stopRequested'
             /\ ~last'.cancelled
             /\ \A op \in inflight' : op.id = arrived' => ~op.cancelled]_vars
    /\ [][(last'.kind = "stop" /\ ~isSending) =>
             /\ UNCHANGED <<isSending, stopRequested, emailCount, inflight>>
             /\ ~last'.response.success]_vars

\* After a stop was accepted during an earlier send, a later send that was
\* not stopped itself failed in the transport and is not reported interrupted.
C18_Witness ==
    /\ stopAccepted
    /\ last.kind \in {"verifyRejected", "sendMailRejected"}
    /\ ~last.cancelled
    /\ ~last.response.interrupted
    /\ last.response.message # "Interrupted"

====
